---- MODULE Spec2Model ----
(***************************************************************************)
(* A model of the scp session of src/libssh/scp.c: the ssh_scp_struct      *)
(* fields, and one action per public function.  The channel functions      *)
(* (channel_new, channel_open_session, channel_request_exec, channel_read, *)
(* channel_write, channel_poll, channel_send_eof, channel_close,           *)
(* channel_free) are the environment: every result they can give is a      *)
(* nondeterministic input of the action that calls them.                   *)
(***************************************************************************)
EXTENDS Integers, Sequences, FiniteSets, TLC

VARIABLES
  state,         \* scp->state
  mode,          \* scp->mode
  channel,       \* scp->channel: "NULL" or "chan"
  filelen,       \* scp->filelen   (size_t)
  processed,     \* scp->processed (size_t)
  request_type,  \* scp->request_type
  request_name,  \* scp->request_name: "NULL" or a sequence of characters
  request_mode,  \* scp->request_mode: "NULL" or a sequence of characters
  freed,         \* ssh_scp_free has run: the handle is gone
  live,          \* channels obtained from channel_new and not yet given to channel_free
  chunks,        \* ssh_scp_write / ssh_scp_read calls that reached the channel in this transfer
  acked,         \* the header of the file being pushed was written and answered by a received 0x00
  accepted,      \* the accept byte 0x00 was written for the pending file request
  last           \* the last call: its name, the fields before it, its return value, its channel calls

vars == <<state, mode, channel, filelen, processed, request_type, request_name,
          request_mode, freed, live, chunks, acked, accepted, last>>

-----------------------------------------------------------------------------
(* Bounds of the model *)

\* size_t is SizeBits wide: arithmetic on filelen, processed and lengths wraps at 2^SizeBits
SizeBits == 20
\* at most MaxChunks write or read calls reach the channel per file transfer
MaxChunks == 3

SizeMod == 2 ^ SizeBits
SizeMax == SizeMod - 1

-----------------------------------------------------------------------------
(* Values of the source *)

SSH_OK == 0
SSH_ERROR == -1

SSH_SCP_WRITE == "SSH_SCP_WRITE"
SSH_SCP_READ == "SSH_SCP_READ"

SSH_SCP_NEW == "SSH_SCP_NEW"
SSH_SCP_WRITE_INITED == "SSH_SCP_WRITE_INITED"
SSH_SCP_WRITE_WRITING == "SSH_SCP_WRITE_WRITING"
SSH_SCP_READ_INITED == "SSH_SCP_READ_INITED"
SSH_SCP_READ_REQUESTED == "SSH_SCP_READ_REQUESTED"
SSH_SCP_READ_READING == "SSH_SCP_READ_READING"
SSH_SCP_ERROR == "SSH_SCP_ERROR"

\* request_type is 0 after ZERO_STRUCTP, until a request is parsed
NO_REQUEST == 0
SSH_SCP_REQUEST_NEWDIR == 1
SSH_SCP_REQUEST_NEWFILE == 2

NULL == "NULL"
CHAN == "chan"

\* the size of buffer[] in ssh_scp_pull_request, and the largest read of ssh_scp_read
PullBufferSize == 4096
MaxReadSize == 65536
\* the value of the character constant '0' stored in filelen for a directory request
CharZero == 48
PushBufferSize == 1024
DenyBufferSize == 4096

-----------------------------------------------------------------------------
(* size_t arithmetic *)

SizeAdd(a, b) == (a + b) % SizeMod
SizeSub(a, b) == (a - b + SizeMod) % SizeMod

-----------------------------------------------------------------------------
(* Strings are sequences of one-character strings; a C string ends before its NUL *)

NL == "\n"
SP == " "

\* strchr(s + from - 1, c): the index of the first c at or after from, 0 for NULL
StrChr(s, from, c) ==
  LET found == {i \in from..Len(s) : s[i] = c}
  IN  IF found = {} THEN 0 ELSE CHOOSE i \in found : \A j \in found : i <= j

Digits == <<"0", "1", "2", "3", "4", "5", "6", "7", "8", "9">>
IsDigit(c) == \E d \in 1..10 : Digits[d] = c
DigitVal(c) == (CHOOSE d \in 1..10 : Digits[d] = c) - 1

\* the digits of strtoull(s, NULL, 10) from index i on: the value, SizeMax once it overflows
RECURSIVE StrToULLDigits(_, _, _)
StrToULLDigits(s, i, acc) ==
  IF i > Len(s) \/ ~IsDigit(s[i]) THEN acc
  ELSE IF acc * 10 + DigitVal(s[i]) > SizeMax THEN SizeMax
  ELSE StrToULLDigits(s, i + 1, acc * 10 + DigitVal(s[i]))

\* strtoull(s, NULL, 10) stored in a size_t: an optional sign, then digits; a minus negates
strtoull(s) ==
  IF Len(s) >= 1 /\ s[1] = "-" THEN SizeSub(0, StrToULLDigits(s, 2, 0))
  ELSE IF Len(s) >= 1 /\ s[1] = "+" THEN StrToULLDigits(s, 2, 0)
  ELSE StrToULLDigits(s, 1, 0)

\* the loop of ssh_scp_read_string over a peer stream [bytes, end]: channel_read gives
\* the bytes one at a time, then SSH_ERROR (end = "err") or 0 (end = "eof").
\* The loop ends at the first of: a newline stored (break with err = 1), len - 1 bytes
\* stored (the loop condition, err = 1 from the last read), the stream's end (SSH_ERROR,
\* or 0 which the loop turns into SSH_ERROR).
\* r is the number of bytes stored, err the value returned, got the last result of
\* channel_read, reads the channel_read calls made.
ReadStringLoop(stream, len) ==
  LET nl == StrChr(stream.bytes, 1, NL)
      avail == Len(stream.bytes)
  IN  IF nl # 0 /\ nl <= len - 1 THEN [r |-> nl, err |-> 1, got |-> 1, reads |-> nl]
      ELSE IF avail >= len - 1
        THEN [r |-> len - 1, err |-> IF len - 1 > 0 THEN 1 ELSE SSH_OK,
              got |-> IF len - 1 > 0 THEN 1 ELSE SSH_OK, reads |-> len - 1]
      ELSE [r |-> avail, err |-> SSH_ERROR,
            got |-> IF stream.end = "err" THEN SSH_ERROR ELSE 0, reads |-> avail + 1]

\* ssh_scp_read_string: the return value, the NUL-terminated buffer, the reads made
ssh_scp_read_string(stream, len) ==
  LET res == ReadStringLoop(stream, len)
  IN  [err |-> res.err, got |-> res.got, buffer |-> SubSeq(stream.bytes, 1, res.r),
       reads |-> res.reads]

-----------------------------------------------------------------------------
(* The session as a record, channel calls, results of a function *)

\* the fields of the handle, with the history fields live, chunks, acked, accepted
Cur ==
  [state |-> state, mode |-> mode, channel |-> channel, filelen |-> filelen,
   processed |-> processed, request_type |-> request_type,
   request_name |-> request_name, request_mode |-> request_mode,
   live |-> live, chunks |-> chunks, acked |-> acked, accepted |-> accepted]

\* one call of a channel function: its name, the length asked, its result, the bytes written
Call(fn, len, res, data) == [fn |-> fn, len |-> len, res |-> res, count |-> 1, data |-> data]

\* the channel_read calls of one ssh_scp_read_string: count of them, each of one byte,
\* res the result of the last one, data the bytes they stored in the buffer
LineRead(count, res, data) ==
  [fn |-> "channel_read", len |-> 1, res |-> res, count |-> count, data |-> data]

\* what a function leaves: the handle, its return value, the channel calls it made
Out(s, ret, calls) == [s |-> s, ret |-> ret, calls |-> calls]

\* a one-byte status read: r is channel_read's result; code is the byte received when
\* r = 1, and the indeterminate value of the uninitialized uint8_t code otherwise
StatusReads ==
  <<[r |-> 1, code |-> 0], [r |-> 1, code |-> 1],
    [r |-> 0, code |-> 0], [r |-> 0, code |-> 1],
    [r |-> SSH_ERROR, code |-> 0], [r |-> SSH_ERROR, code |-> 1]>>

\* channel_write of a whole control line: SSH_ERROR, or all of it (TRUE)
CtlWrite(buffer, wok) == Call("channel_write", Len(buffer), IF wok THEN Len(buffer) ELSE SSH_ERROR, buffer)

\* the status byte as it is written in call records
StatusByte(code) == IF code = 0 THEN "\\000" ELSE "\\001"

StatusCall(rd) == Call("channel_read", 1, rd.r, IF rd.r = 1 THEN <<StatusByte(rd.code)>> ELSE <<>>)

\* channel_write and channel_read of n data bytes may give any count up to n
ChanCounts(n) == {k \in {0, 1, n - 1, n} : 0 <= k /\ k <= n}
ChanResults(n) == {SSH_ERROR} \cup ChanCounts(n)

-----------------------------------------------------------------------------
(* Inputs of the caller and of the peer *)

Location == <<"/", "d">>
Perms == {<<"0", "6", "4", "4">>}
Names == {<<"f">>, <<"a", "/", "f">>}
PushSizes == {0, 1, 3, 70000}
Lens == {0, 1, 2, MaxReadSize, MaxReadSize + 1, SizeMax}
\* a reason that with the byte 0x02 and the newline does not fit the buffer of deny
LongReason == [i \in 1..(DenyBufferSize - 2) |-> "r"]
Reasons == {<<"n", "o">>, LongReason}

FileLine(size, name) == <<"C", "0", "6", "4", "4", " ">> \o size \o <<" ">> \o name \o <<NL>>
LongName == [i \in 1..PullBufferSize |-> "a"]

\* what the peer sends for one control line: bytes, then end of stream or a channel error
PeerStreams ==
  { [bytes |-> FileLine(<<"2">>, <<"f">>), end |-> "eof"],
    [bytes |-> FileLine(<<"0">>, <<"f">>), end |-> "eof"],
    [bytes |-> FileLine(<<"7", "0", "0", "0", "0">>, <<"g">>), end |-> "eof"],
    [bytes |-> <<"D", "0", "7", "5", "5", " ", "0", " ", "d", NL>>, end |-> "eof"],
    [bytes |-> <<"T", "1", " ", "0", " ", "1", " ", "0", NL>>, end |-> "eof"],
    [bytes |-> <<"X", "g", NL>>, end |-> "eof"],
    [bytes |-> <<"E", NL>>, end |-> "eof"],
    [bytes |-> <<"C", "0", "6", "4", "4", NL>>, end |-> "eof"],
    [bytes |-> <<"C", "0", "6", "4", "4", " ", "5", NL>>, end |-> "eof"],
    [bytes |-> <<"C", "0", "6", "4", "4", " ", "2", " ", "f">>, end |-> "eof"],
    [bytes |-> <<"C", "0", "6", "4", "4", " ", "2", " ", "f">>, end |-> "err"],
    [bytes |-> <<"C", "0", "6", "4", "4", " ", "2", " ">> \o LongName, end |-> "eof"],
    [bytes |-> <<>>, end |-> "eof"],
    [bytes |-> <<>>, end |-> "err"] }

-----------------------------------------------------------------------------
(* The control lines written while pushing *)

\* snprintf(buffer, size, ...) of a formatted text: at most size - 1 characters are stored
Snprintf(text, size) == IF Len(text) >= size THEN SubSeq(text, 1, size - 1) ELSE text

\* ssh_basename: what follows the last '/' of the path
RECURSIVE ssh_basename(_)
ssh_basename(path) ==
  IF StrChr(path, 1, "/") = 0 THEN path
  ELSE ssh_basename(SubSeq(path, StrChr(path, 1, "/") + 1, Len(path)))

RECURSIVE DecDigits(_)
DecDigits(n) ==
  IF n < 10 THEN <<Digits[n + 1]>>
  ELSE DecDigits(n \div 10) \o <<Digits[(n % 10) + 1]>>

\* "%" PRIdS of a size_t: printed as a signed number of the same width
FormatSize(size) ==
  IF size >= SizeMod \div 2 THEN <<"-">> \o DecDigits(SizeMod - size)
  ELSE DecDigits(size)

\* snprintf(buffer, sizeof(buffer), "D%s 0 %s\n", perms, dir)
DirectoryLine(perms, dirname) ==
  Snprintf(<<"D">> \o perms \o <<SP, "0", SP>> \o ssh_basename(dirname) \o <<NL>>,
           PushBufferSize)

\* snprintf(buffer, sizeof(buffer), "C%s %" PRIdS " %s\n", perms, size, file)
FileHeaderLine(perms, size, filename) ==
  Snprintf(<<"C">> \o perms \o <<SP>> \o FormatSize(size) \o <<SP>>
             \o ssh_basename(filename) \o <<NL>>,
           PushBufferSize)

LeaveLine == <<"E", NL>>

\* snprintf(buffer, sizeof(buffer), "%c%s\n", 2, reason): the byte 0x02 is written "\002"
DenyLine(reason) == Snprintf(<<"\\002">> \o reason \o <<NL>>, DenyBufferSize)

AcceptByte == <<"\\000">>

ExecLine(m) ==
  Snprintf((IF m = SSH_SCP_WRITE THEN <<"s", "c", "p", " ", "-", "t", " ">>
            ELSE <<"s", "c", "p", " ", "-", "f", " ">>) \o Location,
           PushBufferSize)

\* the file headers whose decoding is compared with what was encoded: permissions, sizes
\* (one of them printed with a sign by PRIdS) and names (one too long for the buffer)
HeaderPerms == {<<"0", "6", "4", "4">>}
HeaderSizes == {1234, SizeMax}
LongFileName == [i \in 1..PushBufferSize |-> "n"]
HeaderNames == {<<"d", "a", "t", "a", ".", "b", "i", "n">>, LongFileName}

\* a peer that sends a header as ssh_scp_push_file writes it
HeaderStreams ==
  {[bytes |-> FileHeaderLine(p, sz, n), end |-> "eof"] :
     p \in HeaderPerms, sz \in HeaderSizes, n \in HeaderNames}

-----------------------------------------------------------------------------
(* The functions of scp.c.  Each takes the handle and the results of the channel *)
(* calls it may make, and gives Out(handle, return value, channel calls).        *)

\* ssh_scp_init taking every session for a push
InitedState_AlwaysWrite(m) == SSH_SCP_WRITE_INITED

\* the state ssh_scp_init leaves on success, by the mode
InitedState(m) == IF m = SSH_SCP_WRITE THEN SSH_SCP_WRITE_INITED ELSE SSH_SCP_READ_INITED

\* ssh_scp_init; cn: channel_new gave a channel; os, ex: channel_open_session and
\* channel_request_exec succeeded; rd: the status read
ssh_scp_init(s, cn, os, ex, rd) ==
  IF s.state # SSH_SCP_NEW THEN Out(s, SSH_ERROR, <<>>)
  ELSE IF ~cn
    THEN Out([s EXCEPT !.channel = NULL, !.state = SSH_SCP_ERROR], SSH_ERROR,
             <<Call("channel_new", 0, SSH_ERROR, <<>>)>>)
  ELSE
    LET s1 == [s EXCEPT !.channel = CHAN, !.live = s.live + 1]
        c1 == <<Call("channel_new", 0, SSH_OK, <<>>)>>
        c2 == c1 \o <<Call("channel_open_session", 0, IF os THEN SSH_OK ELSE SSH_ERROR, <<>>)>>
        c3 == c2 \o <<Call("channel_request_exec", 0, IF ex THEN SSH_OK ELSE SSH_ERROR, ExecLine(s.mode))>>
        c4 == c3 \o <<StatusCall(rd)>>
    IN  IF ~os THEN Out([s1 EXCEPT !.state = SSH_SCP_ERROR], SSH_ERROR, c2)
        ELSE IF ~ex THEN Out([s1 EXCEPT !.state = SSH_SCP_ERROR], SSH_ERROR, c3)
        ELSE IF rd.code # 0 THEN Out([s1 EXCEPT !.state = SSH_SCP_ERROR], SSH_ERROR, c4)
        ELSE Out([s1 EXCEPT !.state = InitedState(s.mode)], SSH_OK, c4)

\* ssh_scp_close; eof, cl: channel_send_eof and channel_close succeeded
ssh_scp_close(s, eof, cl) ==
  IF s.channel # NULL
    THEN
      LET c1 == <<Call("channel_send_eof", 0, IF eof THEN SSH_OK ELSE SSH_ERROR, <<>>)>>
          c2 == c1 \o <<Call("channel_close", 0, IF cl THEN SSH_OK ELSE SSH_ERROR, <<>>)>>
          c3 == c2 \o <<Call("channel_free", 0, SSH_OK, <<>>)>>
      IN  IF ~eof THEN Out([s EXCEPT !.state = SSH_SCP_ERROR], SSH_ERROR, c1)
          ELSE IF ~cl THEN Out([s EXCEPT !.state = SSH_SCP_ERROR], SSH_ERROR, c2)
          ELSE Out([s EXCEPT !.live = s.live - 1, !.channel = NULL, !.state = SSH_SCP_NEW],
                   SSH_OK, c3)
    ELSE Out([s EXCEPT !.state = SSH_SCP_NEW], SSH_OK, <<>>)

\* ssh_scp_free forgetting the channel that a failed close left
ssh_scp_free_NoRelease(s, eof, cl) ==
  IF s.state # SSH_SCP_NEW THEN ssh_scp_close(s, eof, cl) ELSE Out(s, SSH_OK, <<>>)

\* ssh_scp_free: closes unless the state is new, then frees a channel still held
ssh_scp_free(s, eof, cl) ==
  LET o1 == IF s.state # SSH_SCP_NEW THEN ssh_scp_close(s, eof, cl) ELSE Out(s, SSH_OK, <<>>)
      s1 == o1.s
  IN  IF s1.channel # NULL
        THEN Out([s1 EXCEPT !.live = s1.live - 1], SSH_OK,
                 o1.calls \o <<Call("channel_free", 0, SSH_OK, <<>>)>>)
        ELSE Out(s1, SSH_OK, o1.calls)

\* the common body of the three control-line functions of a push, after the line is built:
\* write it, read one status byte, fail on a written error or on code # 0
PushLine(s, buffer, wok, rd, onSuccess) ==
  LET c1 == <<CtlWrite(buffer, wok)>>
      c2 == c1 \o <<StatusCall(rd)>>
  IN  IF ~wok THEN Out([s EXCEPT !.state = SSH_SCP_ERROR], SSH_ERROR, c1)
      ELSE IF rd.code # 0 THEN Out([s EXCEPT !.state = SSH_SCP_ERROR], SSH_ERROR, c2)
      ELSE Out(onSuccess, SSH_OK, c2)

ssh_scp_push_directory(s, dirname, perms, wok, rd) ==
  IF s.state # SSH_SCP_WRITE_INITED THEN Out(s, SSH_ERROR, <<>>)
  ELSE PushLine(s, DirectoryLine(perms, dirname), wok, rd, s)

\* ssh_scp_leave_directory taking a call in the wrong state for a fatal error
ssh_scp_leave_directory_FatalMisuse(s, wok, rd) ==
  IF s.state # SSH_SCP_WRITE_INITED THEN Out([s EXCEPT !.state = SSH_SCP_ERROR], SSH_ERROR, <<>>)
  ELSE PushLine(s, LeaveLine, wok, rd, s)

ssh_scp_leave_directory(s, wok, rd) ==
  IF s.state # SSH_SCP_WRITE_INITED THEN Out(s, SSH_ERROR, <<>>)
  ELSE PushLine(s, LeaveLine, wok, rd, s)

ssh_scp_push_file(s, filename, size, perms, wok, rd) ==
  IF s.state # SSH_SCP_WRITE_INITED THEN Out(s, SSH_ERROR, <<>>)
  ELSE PushLine([s EXCEPT !.acked = FALSE], FileHeaderLine(perms, size, filename), wok, rd,
                [s EXCEPT !.filelen = size, !.processed = 0,
                          !.state = SSH_SCP_WRITE_WRITING,
                          !.chunks = 0, !.acked = (rd.r = 1 /\ rd.code = 0)])

\* the length ssh_scp_write passes to channel_write: len, cut to what is left of the file
WriteLen(s, len) ==
  IF SizeAdd(s.processed, len) > s.filelen THEN SizeSub(s.filelen, s.processed) ELSE len

\* ssh_scp_write; w: the result of channel_write
ssh_scp_write(s, len, w) ==
  IF s.state # SSH_SCP_WRITE_WRITING THEN Out(s, SSH_ERROR, <<>>)
  ELSE
    LET calls == <<Call("channel_poll", 0, SSH_OK, <<>>),
                   Call("channel_write", WriteLen(s, len), w, <<>>)>>
        s1 == [s EXCEPT !.chunks = s.chunks + 1]
        s2 == [s1 EXCEPT !.processed = SizeAdd(s.processed, w)]
    IN  IF w = SSH_ERROR THEN Out([s1 EXCEPT !.state = SSH_SCP_ERROR], SSH_ERROR, calls)
        ELSE IF s2.processed = s2.filelen
          THEN Out([s2 EXCEPT !.processed = 0, !.filelen = 0,
                              !.state = SSH_SCP_WRITE_INITED, !.acked = FALSE],
                   SSH_OK, calls)
        ELSE Out(s2, SSH_OK, calls)

\* a parser that takes what is left of the buffer for the name when no newline ends it
ParseRequest_NameToEnd(buffer) ==
  IF Len(buffer) = 0 \/ buffer[1] \notin {"C", "D"} THEN [kind |-> "unhandled"]
  ELSE
    LET p1 == StrChr(buffer, 1, SP)
        p2 == StrChr(buffer, p1 + 1, SP)
    IN  IF p1 = 0 THEN [kind |-> "error"]
        ELSE IF p2 = 0 THEN [kind |-> "error"]
        ELSE [kind |-> "request",
              mode |-> SubSeq(buffer, 2, p1 - 1),
              size |-> strtoull(SubSeq(buffer, p1 + 1, p2 - 1)),
              name |-> SubSeq(buffer, p2 + 1, Len(buffer))]

\* the switch of ssh_scp_pull_request on the line read: "unhandled" for the default
\* case, "error" for the parsing error, else the request
ParseRequest(buffer) ==
  IF Len(buffer) = 0 \/ buffer[1] \notin {"C", "D"} THEN [kind |-> "unhandled"]
  ELSE
    LET p1 == StrChr(buffer, 1, SP)
        p2 == StrChr(buffer, p1 + 1, SP)
        p3 == StrChr(buffer, p2 + 1, NL)
    IN  IF p1 = 0 THEN [kind |-> "error"]
        ELSE IF p2 = 0 THEN [kind |-> "error"]
        ELSE IF p3 = 0 THEN [kind |-> "error"]
        ELSE [kind |-> "request",
              mode |-> SubSeq(buffer, 2, p1 - 1),
              size |-> strtoull(SubSeq(buffer, p1 + 1, p2 - 1)),
              name |-> SubSeq(buffer, p2 + 1, p3 - 1)]

\* ssh_scp_pull_request leaving the request fields as they were
StoreRequest_Nothing(s, req) == s

\* the parsed permissions and name replace the ones of the request before
StoreRequest(s, req) == [s EXCEPT !.request_mode = req.mode, !.request_name = req.name]

\* ssh_scp_pull_request; stream: what the peer sends
ssh_scp_pull_request(s, stream) ==
  IF s.state # SSH_SCP_READ_INITED THEN Out(s, SSH_ERROR, <<>>)
  ELSE
    LET rs == ssh_scp_read_string(stream, PullBufferSize)
        calls == <<LineRead(rs.reads, rs.got, rs.buffer)>>
        req == ParseRequest(rs.buffer)
    IN  IF rs.err = SSH_ERROR THEN Out(s, SSH_ERROR, calls)
        ELSE IF req.kind # "request" THEN Out(s, SSH_ERROR, calls)
        ELSE IF rs.buffer[1] = "C"
          THEN Out([StoreRequest(s, req) EXCEPT
                             !.filelen = req.size,
                             !.request_type = SSH_SCP_REQUEST_NEWFILE,
                             !.state = SSH_SCP_READ_REQUESTED, !.processed = 0,
                             !.chunks = 0, !.accepted = FALSE],
                   SSH_SCP_REQUEST_NEWFILE, calls)
        ELSE Out([StoreRequest(s, req) EXCEPT
                           !.filelen = CharZero,
                           !.request_type = SSH_SCP_REQUEST_NEWDIR,
                           !.state = SSH_SCP_READ_REQUESTED, !.processed = 0,
                           !.chunks = 0, !.accepted = FALSE],
                 SSH_SCP_REQUEST_NEWDIR, calls)

\* ssh_scp_deny_request; wok: channel_write succeeded
ssh_scp_deny_request(s, reason, wok) ==
  IF s.state # SSH_SCP_READ_REQUESTED THEN Out(s, SSH_ERROR, <<>>)
  ELSE IF ~wok THEN Out(s, SSH_ERROR, <<CtlWrite(DenyLine(reason), wok)>>)
  ELSE Out([s EXCEPT !.state = SSH_SCP_READ_INITED], SSH_OK, <<CtlWrite(DenyLine(reason), wok)>>)

\* ssh_scp_accept_request; wok: channel_write succeeded
ssh_scp_accept_request(s, wok) ==
  IF s.state # SSH_SCP_READ_REQUESTED THEN Out(s, SSH_ERROR, <<>>)
  ELSE IF ~wok THEN Out(s, SSH_ERROR, <<CtlWrite(AcceptByte, wok)>>)
  ELSE IF s.request_type = SSH_SCP_REQUEST_NEWFILE
    THEN Out([s EXCEPT !.state = SSH_SCP_READ_READING, !.accepted = TRUE], SSH_OK,
             <<CtlWrite(AcceptByte, wok)>>)
  ELSE Out([s EXCEPT !.state = SSH_SCP_READ_INITED], SSH_OK, <<CtlWrite(AcceptByte, wok)>>)

\* ssh_scp_read never accepting a request itself
ReadAccepts_Never(s) == FALSE

\* ssh_scp_read accepting whatever request is pending, a directory too
ReadAccepts_AnyRequest(s) == s.state = SSH_SCP_READ_REQUESTED

\* ssh_scp_read accepts the request itself when a file request is pending
ReadAccepts(s) ==
  s.state = SSH_SCP_READ_REQUESTED /\ s.request_type = SSH_SCP_REQUEST_NEWFILE

\* the length ssh_scp_read passes to channel_read
ReadLen(s, size) ==
  LET size1 == IF SizeAdd(s.processed, size) > s.filelen
                 THEN SizeSub(s.filelen, s.processed) ELSE size
  IN  IF size1 > MaxReadSize THEN MaxReadSize ELSE size1

\* ssh_scp_read; wok: the channel_write of the accept succeeded; r: the result of channel_read
ssh_scp_read(s, size, wok, r) ==
  LET o1 == IF ReadAccepts(s) THEN ssh_scp_accept_request(s, wok) ELSE Out(s, SSH_OK, <<>>)
      s1 == o1.s
  IN  IF o1.ret = SSH_ERROR THEN o1
      ELSE IF s1.state # SSH_SCP_READ_READING THEN Out(s1, SSH_ERROR, o1.calls)
      ELSE
        LET calls == o1.calls \o <<Call("channel_read", ReadLen(s1, size), r, <<>>)>>
            s2 == [s1 EXCEPT !.chunks = s1.chunks + 1]
            s3 == [s2 EXCEPT !.processed = SizeAdd(s1.processed, r)]
        IN  IF r = SSH_ERROR THEN Out([s2 EXCEPT !.state = SSH_SCP_ERROR], SSH_ERROR, calls)
            ELSE IF s3.processed = s3.filelen
              THEN Out([s3 EXCEPT !.processed = 0, !.filelen = 0,
                                  !.state = SSH_SCP_READ_INITED, !.accepted = FALSE],
                       r, calls)
            ELSE Out(s3, r, calls)

-----------------------------------------------------------------------------
(* The state machine: one action per function *)

Init ==
  /\ state = SSH_SCP_NEW
  /\ mode \in {SSH_SCP_WRITE, SSH_SCP_READ}
  /\ channel = NULL
  /\ filelen = 0
  /\ processed = 0
  /\ request_type = NO_REQUEST
  /\ request_name = NULL
  /\ request_mode = NULL
  /\ freed = FALSE
  /\ live = 0
  /\ chunks = 0
  /\ acked = FALSE
  /\ accepted = FALSE
  /\ last = [op |-> "ssh_scp_new", arg |-> 0, pre |-> [state |-> SSH_SCP_NEW], ret |-> SSH_OK,
             calls |-> <<>>]

\* a call of function op with length argument arg (0 when it has none) that leaves o:
\* the fields change as o.s says
Do(op, arg, o) ==
  /\ state' = o.s.state
  /\ mode' = o.s.mode
  /\ channel' = o.s.channel
  /\ filelen' = o.s.filelen
  /\ processed' = o.s.processed
  /\ request_type' = o.s.request_type
  /\ request_name' = o.s.request_name
  /\ request_mode' = o.s.request_mode
  /\ live' = o.s.live
  /\ chunks' = IF o.s.state \in {SSH_SCP_WRITE_WRITING, SSH_SCP_READ_READING} THEN o.s.chunks ELSE 0
  /\ acked' = (o.s.acked /\ o.s.state = SSH_SCP_WRITE_WRITING)
  /\ accepted' = (o.s.accepted /\ o.s.state \in {SSH_SCP_READ_REQUESTED, SSH_SCP_READ_READING})
  /\ last' = [op |-> op, arg |-> arg, pre |-> Cur, ret |-> o.ret, calls |-> o.calls]

Initialize ==
  /\ ~freed
  /\ \E cn \in BOOLEAN, os \in BOOLEAN, ex \in BOOLEAN, i \in DOMAIN StatusReads :
       Do("ssh_scp_init", 0, ssh_scp_init(Cur, cn, os, ex, StatusReads[i]))
  /\ UNCHANGED freed

Close ==
  /\ ~freed
  /\ \E eof \in BOOLEAN, cl \in BOOLEAN : Do("ssh_scp_close", 0, ssh_scp_close(Cur, eof, cl))
  /\ UNCHANGED freed

Free ==
  /\ ~freed
  /\ \E eof \in BOOLEAN, cl \in BOOLEAN : Do("ssh_scp_free", 0, ssh_scp_free(Cur, eof, cl))
  /\ freed' = TRUE

PushDirectory ==
  /\ ~freed
  /\ \E dirname \in Names, perms \in Perms, wok \in BOOLEAN, i \in DOMAIN StatusReads :
       Do("ssh_scp_push_directory", 0, ssh_scp_push_directory(Cur, dirname, perms, wok, StatusReads[i]))
  /\ UNCHANGED freed

LeaveDirectory ==
  /\ ~freed
  /\ \E wok \in BOOLEAN, i \in DOMAIN StatusReads :
       Do("ssh_scp_leave_directory", 0, ssh_scp_leave_directory(Cur, wok, StatusReads[i]))
  /\ UNCHANGED freed

PushFile ==
  /\ ~freed
  /\ \E filename \in Names, size \in PushSizes, perms \in Perms, wok \in BOOLEAN,
        i \in DOMAIN StatusReads :
       Do("ssh_scp_push_file", size, ssh_scp_push_file(Cur, filename, size, perms, wok, StatusReads[i]))
  /\ UNCHANGED freed

Write ==
  /\ ~freed
  /\ state = SSH_SCP_WRITE_WRITING => chunks < MaxChunks
  /\ \E len \in Lens : \E w \in ChanResults(WriteLen(Cur, len)) :
       Do("ssh_scp_write", len, ssh_scp_write(Cur, len, w))
  /\ UNCHANGED freed

PullRequest ==
  /\ ~freed
  /\ \E stream \in PeerStreams \cup HeaderStreams : Do("ssh_scp_pull_request", 0, ssh_scp_pull_request(Cur, stream))
  /\ UNCHANGED freed

DenyRequest ==
  /\ ~freed
  /\ \E reason \in Reasons, wok \in BOOLEAN :
       Do("ssh_scp_deny_request", reason, ssh_scp_deny_request(Cur, reason, wok))
  /\ UNCHANGED freed

AcceptRequest ==
  /\ ~freed
  /\ \E wok \in BOOLEAN : Do("ssh_scp_accept_request", 0, ssh_scp_accept_request(Cur, wok))
  /\ UNCHANGED freed

Read ==
  /\ ~freed
  /\ state \in {SSH_SCP_READ_REQUESTED, SSH_SCP_READ_READING} => chunks < MaxChunks
  /\ \E size \in Lens, wok \in BOOLEAN : \E r \in ChanResults(ReadLen(Cur, size)) :
       Do("ssh_scp_read", size, ssh_scp_read(Cur, size, wok, r))
  /\ UNCHANGED freed

Next ==
  \/ Initialize
  \/ Close
  \/ Free
  \/ PushDirectory
  \/ LeaveDirectory
  \/ PushFile
  \/ Write
  \/ PullRequest
  \/ DenyRequest
  \/ AcceptRequest
  \/ Read

Spec == Init /\ [][Next]_vars

-----------------------------------------------------------------------------
(* A caller that, once a file is open, calls ssh_scp_write or ssh_scp_read with a   *)
(* length above 0 again and again, over a channel whose calls never give SSH_ERROR. *)
(* The count of calls per file is not limited here.                                  *)

LiveSizes == {0, 1, 3, 5}
LiveLens == {1, 2, 4}

\* the peer of a pull announces a file of each size
LiveStreams ==
  {[bytes |-> FileLine(DecDigits(sz), <<"f">>), end |-> "eof"] : sz \in LiveSizes}

\* the handle with the call count of the file cleared
Uncounted == [Cur EXCEPT !.chunks = 0]

InitializeLive ==
  /\ ~freed /\ state = SSH_SCP_NEW
  /\ Do("ssh_scp_init", 0, ssh_scp_init(Cur, TRUE, TRUE, TRUE, StatusReads[1]))
  /\ UNCHANGED freed

PushFileLive ==
  /\ ~freed /\ state = SSH_SCP_WRITE_INITED
  /\ \E size \in LiveSizes :
       Do("ssh_scp_push_file", size,
          ssh_scp_push_file(Cur, <<"f">>, size, <<"0", "6", "4", "4">>, TRUE, StatusReads[1]))
  /\ UNCHANGED freed

PullRequestLive ==
  /\ ~freed /\ state = SSH_SCP_READ_INITED
  /\ \E stream \in LiveStreams : Do("ssh_scp_pull_request", 0, ssh_scp_pull_request(Cur, stream))
  /\ UNCHANGED freed

AcceptRequestLive ==
  /\ ~freed /\ state = SSH_SCP_READ_REQUESTED
  /\ Do("ssh_scp_accept_request", 0, ssh_scp_accept_request(Cur, TRUE))
  /\ UNCHANGED freed

\* ssh_scp_write with a length above 0; channel_write takes any count of bytes, 0 too
WriteLive ==
  /\ ~freed /\ state = SSH_SCP_WRITE_WRITING
  /\ \E len \in LiveLens : \E w \in ChanCounts(WriteLen(Cur, len)) :
       Do("ssh_scp_write", len, ssh_scp_write(Uncounted, len, w))
  /\ UNCHANGED freed

\* ssh_scp_read with a length above 0; channel_read gives any count of bytes, 0 (the
\* peer ended the stream) too
ReadLive ==
  /\ ~freed /\ state = SSH_SCP_READ_READING
  /\ \E size \in LiveLens : \E r \in ChanCounts(ReadLen(Cur, size)) :
       Do("ssh_scp_read", size, ssh_scp_read(Uncounted, size, TRUE, r))
  /\ UNCHANGED freed

NextLive ==
  \/ InitializeLive
  \/ PushFileLive
  \/ PullRequestLive
  \/ AcceptRequestLive
  \/ WriteLive
  \/ ReadLive

\* the caller goes on calling while the file is open
SpecLive == Init /\ [][NextLive]_vars /\ WF_vars(WriteLive) /\ WF_vars(ReadLive)

-----------------------------------------------------------------------------
(* Reading the last call *)

WasCall(op) == last.op = op

\* the functions that check the state first
Checked ==
  {"ssh_scp_init", "ssh_scp_push_directory", "ssh_scp_leave_directory", "ssh_scp_push_file",
   "ssh_scp_write", "ssh_scp_pull_request", "ssh_scp_deny_request",
   "ssh_scp_accept_request", "ssh_scp_read"}

\* the documented precondition of function op holds of the fields pre
Precondition(op, pre) ==
  CASE op = "ssh_scp_init" -> pre.state = SSH_SCP_NEW
    [] op \in {"ssh_scp_push_directory", "ssh_scp_leave_directory", "ssh_scp_push_file"} ->
         pre.state = SSH_SCP_WRITE_INITED
    [] op = "ssh_scp_write" -> pre.state = SSH_SCP_WRITE_WRITING
    [] op = "ssh_scp_pull_request" -> pre.state = SSH_SCP_READ_INITED
    [] op \in {"ssh_scp_deny_request", "ssh_scp_accept_request"} ->
         pre.state = SSH_SCP_READ_REQUESTED
    [] op = "ssh_scp_read" ->
         \/ pre.state = SSH_SCP_READ_READING
         \/ pre.state = SSH_SCP_READ_REQUESTED /\ pre.request_type = SSH_SCP_REQUEST_NEWFILE

\* the channel calls of the last call that failed
FailedCalls == {i \in 1..Len(last.calls) : last.calls[i].res = SSH_ERROR}

-----------------------------------------------------------------------------
(* C1..C10 *)

\* C1: a function other than close and free, called in a state that is not its
\* precondition state (the error state included), returns SSH_ERROR and makes no
\* channel call.
C1_WrongStateFailsWithoutIO ==
  (last.op \in Checked /\ ~Precondition(last.op, last.pre)) =>
    (last.ret = SSH_ERROR /\ last.calls = <<>>)

\* C1 witness: ssh_scp_read was refused in the error state
C1_Witness ==
  /\ WasCall("ssh_scp_read")
  /\ last.pre.state = SSH_SCP_ERROR
  /\ last.ret = SSH_ERROR
  /\ last.calls = <<>>

\* C2: a control line that violates the protocol, read by ssh_scp_pull_request in the
\* read-inited state without a channel error, makes the call fail and leaves the
\* session in the error state (so that the next ssh_scp_pull_request reads nothing).
C2_BadLineIsFatal ==
  (/\ WasCall("ssh_scp_pull_request")
   /\ last.pre.state = SSH_SCP_READ_INITED
   /\ FailedCalls = {}
   /\ last.calls[1].res = 1
   /\ last.ret = SSH_ERROR) => state = SSH_SCP_ERROR

\* C3: when a channel call of a function fails, the function returns SSH_ERROR and
\* the session is in the error state.
C3_ChannelFailureIsFatal ==
  (last.op \in Checked \cup {"ssh_scp_close"} /\ FailedCalls # {}) =>
    (last.ret = SSH_ERROR /\ state = SSH_SCP_ERROR)

\* the calls of the last call that pass file data: the channel_write of ssh_scp_write,
\* the channel_read of ssh_scp_read, of a length above 0
DataCalls ==
  {i \in 1..Len(last.calls) :
     /\ last.calls[i].len > 0
     /\ \/ WasCall("ssh_scp_write") /\ last.calls[i].fn = "channel_write"
        \/ WasCall("ssh_scp_read") /\ last.calls[i].fn = "channel_read"}

\* the last call wrote the accept byte itself, before anything else
AcceptedInCall ==
  /\ Len(last.calls) >= 1
  /\ last.calls[1].fn = "channel_write"
  /\ last.calls[1].data = AcceptByte
  /\ last.calls[1].res = 1

\* C4: file data is written only after the header of the file was written and a status
\* byte 0x00 was received for it, and read only after the accept byte was written for
\* the pending file request.
C4_DataOnlyAfterHandshake ==
  /\ (WasCall("ssh_scp_write") /\ DataCalls # {}) => last.pre.acked
  /\ (WasCall("ssh_scp_read") /\ DataCalls # {}) => (last.pre.accepted \/ AcceptedInCall)

\* C5: a write in the writing state passes to the channel no more than what is left of
\* the declared size, the total written never exceeds the declared size, and once the
\* total equals it the state is write-inited with both counters 0.
C5_WriteClamp ==
  (WasCall("ssh_scp_write") /\ last.pre.state = SSH_SCP_WRITE_WRITING) =>
    /\ last.calls[2].len <= last.pre.filelen - last.pre.processed
    /\ last.calls[2].res # SSH_ERROR =>
         /\ last.pre.processed + last.calls[2].res <= last.pre.filelen
         /\ last.pre.processed + last.calls[2].res = last.pre.filelen =>
              (state = SSH_SCP_WRITE_INITED /\ filelen = 0 /\ processed = 0)

Min(a, b) == IF a < b THEN a ELSE b

\* C6: a read in the reading state asks the channel for at most the least of the length
\* asked, what is left of the declared size, and 65536.
C6_ReadClamp ==
  (WasCall("ssh_scp_read") /\ last.pre.state = SSH_SCP_READ_READING) =>
    last.calls[1].len <=
      Min(last.arg, Min(last.pre.filelen - last.pre.processed, MaxReadSize))

\* C7: while a transfer is active, processed <= declared size.
C7_ProcessedWithinSize ==
  state \in {SSH_SCP_WRITE_WRITING, SSH_SCP_READ_READING} => processed <= filelen

\* the announced name and permissions are there
Pending == request_name # NULL /\ request_mode # NULL

\* C8 as stated: the pending request is present exactly when the state is read-requested.
C8_PendingIffRequested == Pending <=> state = SSH_SCP_READ_REQUESTED

\* C8 amended: the pending request is present whenever the state is read-requested, and
\* it is present exactly when some request has been announced since the session was
\* created: accept, deny, read, close and errors leave it in place.
C8_PendingWhileRequested ==
  /\ state = SSH_SCP_READ_REQUESTED => Pending
  /\ Pending <=> request_type # NO_REQUEST
  /\ (request_name = NULL) <=> (request_mode = NULL)

\* C8 witness: ssh_scp_pull_request has announced a request
C8_Witness ==
  /\ WasCall("ssh_scp_pull_request")
  /\ state = SSH_SCP_READ_REQUESTED
  /\ last.pre.request_name = NULL
  /\ Pending

\* C9: the session holds no channel or one, the field channel says which, and none
\* is left after ssh_scp_free.
C9_OneChannel ==
  /\ live \in {0, 1}
  /\ ~freed => (live = 1 <=> channel # NULL)
  /\ freed => live = 0

\* C9 witness: ssh_scp_free released the channel that its failed close had kept
C9_Witness ==
  /\ freed
  /\ last.pre.live = 1
  /\ FailedCalls # {}
  /\ live = 0

\* C10: a close that succeeds leaves the state new and no channel; a close with no
\* channel makes no channel call; a close that fails leaves the error state and has
\* released the channel all the same.
C10_CloseReleases ==
  WasCall("ssh_scp_close") =>
    /\ last.ret = SSH_OK => (state = SSH_SCP_NEW /\ channel = NULL /\ live = 0)
    /\ last.pre.channel = NULL => (last.calls = <<>> /\ last.ret = SSH_OK)
    /\ last.ret = SSH_ERROR => (state = SSH_SCP_ERROR /\ channel = NULL /\ live = 0)


-----------------------------------------------------------------------------
(* C11..C20 *)

PushStates == {SSH_SCP_WRITE_INITED, SSH_SCP_WRITE_WRITING}
PullStates == {SSH_SCP_READ_INITED, SSH_SCP_READ_REQUESTED, SSH_SCP_READ_READING}

\* C11: a session created for reading never is in a write state, a session created
\* for writing never is in a read state, and no call changes the mode.
C11_ModePartitionsStates ==
  /\ mode = SSH_SCP_READ => state \notin PushStates
  /\ mode = SSH_SCP_WRITE => state \notin PullStates
  /\ ~WasCall("ssh_scp_new") => last.pre.mode = mode

\* C11 witness: a session closed and initialized again is in the inited state of its mode
C11_Witness ==
  /\ WasCall("ssh_scp_init")
  /\ last.pre.request_type # NO_REQUEST
  /\ mode = SSH_SCP_READ
  /\ state = SSH_SCP_READ_INITED


\* the functions that send a command or a control line and wait for its status byte
StatusOps ==
  {"ssh_scp_init", "ssh_scp_push_directory", "ssh_scp_leave_directory", "ssh_scp_push_file"}

\* the last call sent its command or control line
CommandSent ==
  \E i \in 1..Len(last.calls) :
    /\ last.calls[i].fn \in {"channel_request_exec", "channel_write"}
    /\ last.calls[i].res # SSH_ERROR

\* C12: ssh_scp_init, ssh_scp_push_directory, ssh_scp_leave_directory and
\* ssh_scp_push_file, once the command or line is sent, read exactly one status byte,
\* return SSH_OK exactly when that byte was received and is 0x00, and otherwise return
\* SSH_ERROR with the state SSH_SCP_ERROR; on success init is in the inited state of its
\* mode, the directory functions stay in SSH_SCP_WRITE_INITED, and push_file is in
\* SSH_SCP_WRITE_WRITING with filelen the size given and processed 0.
C12_StatusByteDecides ==
  (last.op \in StatusOps /\ Precondition(last.op, last.pre) /\ CommandSent) =>
    LET n == Len(last.calls)
        rd == last.calls[n]
    IN  /\ Cardinality({i \in 1..n : last.calls[i].fn = "channel_read"}) = 1
        /\ rd.fn = "channel_read" /\ rd.len = 1
        /\ last.ret = SSH_OK <=> (rd.res = 1 /\ rd.data = <<StatusByte(0)>>)
        /\ last.ret # SSH_OK => last.ret = SSH_ERROR /\ state = SSH_SCP_ERROR
        /\ last.ret = SSH_OK =>
             CASE WasCall("ssh_scp_init") ->
                    state = IF mode = SSH_SCP_WRITE THEN SSH_SCP_WRITE_INITED
                            ELSE SSH_SCP_READ_INITED
               [] WasCall("ssh_scp_push_file") ->
                    state = SSH_SCP_WRITE_WRITING /\ filelen = last.arg /\ processed = 0
               [] OTHER -> state = SSH_SCP_WRITE_INITED


\* C13: ssh_scp_deny_request in SSH_SCP_READ_REQUESTED, its channel_write succeeding,
\* writes in one channel_write exactly the byte 0x02, the reason given and a newline,
\* leaves the state SSH_SCP_READ_INITED, and every ssh_scp_read called next returns
\* SSH_ERROR, makes no channel call and changes nothing, whether the request denied
\* was a file or a directory.
C13_DenyThenReadFails ==
  (/\ WasCall("ssh_scp_deny_request")
   /\ last.pre.state = SSH_SCP_READ_REQUESTED
   /\ last.ret = SSH_OK) =>
    LET line == <<"\\002">> \o last.arg \o <<NL>>
    IN  /\ Len(last.calls) = 1
        /\ last.calls[1].fn = "channel_write"
        /\ last.calls[1].data = line
        /\ last.calls[1].len = Len(line)
        /\ state = SSH_SCP_READ_INITED
        /\ \A size \in Lens, wok \in BOOLEAN, r \in {SSH_ERROR, 0, 1} :
             ssh_scp_read(Cur, size, wok, r) = Out(Cur, SSH_ERROR, <<>>)


\* a line as the protocol wants it: C or D first, two spaces, and the newline as its
\* last byte, all within the 4095 bytes that fit the buffer
WellFormed(line) ==
  /\ Len(line) >= 1
  /\ Len(line) <= PullBufferSize - 1
  /\ line[1] \in {"C", "D"}
  /\ Cardinality({i \in 1..Len(line) : line[i] = SP}) >= 2
  /\ line[Len(line)] = NL

C15_HeaderRoundTrip ==
  \A p \in HeaderPerms, sz \in HeaderSizes, n \in HeaderNames :
    (/\ WasCall("ssh_scp_pull_request")
     /\ last.pre.state = SSH_SCP_READ_INITED
     /\ last.calls[1].data = FileHeaderLine(p, sz, n)) =>
      /\ last.ret = SSH_SCP_REQUEST_NEWFILE
      /\ request_type = SSH_SCP_REQUEST_NEWFILE
      /\ request_mode = p
      /\ filelen = sz
      /\ request_name = n


\* C16: a transfer whose processed count equals the declared size is over: the session
\* is never in SSH_SCP_WRITE_WRITING or in SSH_SCP_READ_READING with
\* processed = filelen, a declared size of 0 included.
C16_FinishedTransferIsClosed ==
  state \in {SSH_SCP_WRITE_WRITING, SSH_SCP_READ_READING} => processed # filelen


\* C17: outside a transfer the counters are reset: whenever the state is
\* SSH_SCP_WRITE_INITED or SSH_SCP_READ_INITED (after init, after the last write or read
\* of a file, after a request was denied, after a directory request was accepted),
\* filelen and processed are both 0.
C17_CountersResetBetweenTransfers ==
  state \in {SSH_SCP_WRITE_INITED, SSH_SCP_READ_INITED} => filelen = 0 /\ processed = 0


\* C18: ssh_scp_read called in SSH_SCP_READ_REQUESTED with a file request pending does
\* what ssh_scp_accept_request followed by ssh_scp_read does, for every length and all
\* channel results: the same channel calls (the byte 0x00 written, then the data read,
\* its length cut to what is left of the file and to 65536), the same return value, the
\* same handle, in SSH_SCP_READ_READING or SSH_SCP_READ_INITED when nothing failed; with
\* a directory request pending it returns SSH_ERROR, makes no channel call and leaves
\* the handle as it was, in SSH_SCP_READ_REQUESTED.
C18_ReadAcceptsFilesOnly ==
  state = SSH_SCP_READ_REQUESTED =>
    \A size \in Lens, wok \in BOOLEAN :
      \A r \in ChanResults(Min(size, Min(filelen, MaxReadSize))) :
        LET direct == ssh_scp_read(Cur, size, wok, r)
            acc == ssh_scp_accept_request(Cur, wok)
            rd == ssh_scp_read(acc.s, size, wok, r)
            twoCalls == IF acc.ret = SSH_ERROR THEN acc
                        ELSE Out(rd.s, rd.ret, acc.calls \o rd.calls)
        IN  IF request_type = SSH_SCP_REQUEST_NEWFILE
              THEN /\ direct = twoCalls
                   /\ direct.calls[1] = CtlWrite(AcceptByte, wok)
                   /\ (wok /\ r # SSH_ERROR) =>
                        /\ Len(direct.calls) = 2
                        /\ direct.calls[2].fn = "channel_read"
                        /\ direct.calls[2].len = Min(size, Min(filelen, MaxReadSize))
                        /\ direct.s.state \in {SSH_SCP_READ_READING, SSH_SCP_READ_INITED}
              ELSE direct = Out(Cur, SSH_ERROR, <<>>)

\* C18 witness: ssh_scp_read was called with a file request pending, wrote the accept
\* itself and read data
C18_Witness ==
  /\ WasCall("ssh_scp_read")
  /\ last.pre.state = SSH_SCP_READ_REQUESTED
  /\ last.pre.request_type = SSH_SCP_REQUEST_NEWFILE
  /\ AcceptedInCall
  /\ Len(last.calls) = 2
  /\ last.ret > 0

\* C18 witness of the other case: ssh_scp_read was called with a directory request pending
C18_WitnessDirectory ==
  /\ WasCall("ssh_scp_read")
  /\ last.pre.state = SSH_SCP_READ_REQUESTED
  /\ last.pre.request_type = SSH_SCP_REQUEST_NEWDIR
  /\ last.ret = SSH_ERROR
  /\ state = SSH_SCP_READ_REQUESTED


\* the fields of the handle that the program itself holds
Fields(s) ==
  [state |-> s.state, mode |-> s.mode, channel |-> s.channel, filelen |-> s.filelen,
   processed |-> s.processed, request_type |-> s.request_type,
   request_name |-> s.request_name, request_mode |-> s.request_mode, live |-> s.live]

\* C19: a function refused by its state check (called in a state that is not its
\* precondition state, SSH_SCP_ERROR included) changes nothing: state, mode, filelen,
\* processed, the request fields, the channel and the count of channels held are as
\* before the call; so a session in SSH_SCP_ERROR stays there under every function but
\* ssh_scp_close and ssh_scp_free.
C19_RejectedCallChangesNothing ==
  (last.op \in Checked /\ ~Precondition(last.op, last.pre)) =>
    /\ Fields(Cur) = Fields(last.pre)
    /\ last.pre.state = SSH_SCP_ERROR => state = SSH_SCP_ERROR

\* C19 witness: ssh_scp_leave_directory was refused in the error state of a session
\* that holds a channel and a request announced before
C19_Witness ==
  /\ WasCall("ssh_scp_leave_directory")
  /\ last.pre.state = SSH_SCP_ERROR
  /\ last.pre.request_name # NULL
  /\ channel # NULL
  /\ last.ret = SSH_ERROR


\* C20: once a file is open (SSH_SCP_WRITE_WRITING after ssh_scp_push_file,
\* SSH_SCP_READ_READING after the accept), a caller that goes on calling ssh_scp_write
\* (ssh_scp_read) with a length above 0, no channel call failing, sees the session back
\* in SSH_SCP_WRITE_INITED (SSH_SCP_READ_INITED) in the end, whatever counts the channel
\* calls give, 0 included.
C20_TransferEnds ==
  (state \in {SSH_SCP_WRITE_WRITING, SSH_SCP_READ_READING})
    ~> (state \in {SSH_SCP_WRITE_INITED, SSH_SCP_READ_INITED})

====
